---------------------------- MODULE Spec2Model ----------------------------
(***************************************************************************)
(* A model of renderer.py: the MarkdownRenderer class (the mode/threshold  *)
(* policy should_render, the render dispatch with its two backends, the    *)
(* hand-written markdown to HTML transcoder _markdown_to_html) and the     *)
(* process-wide get_renderer singleton.                                    *)
(*                                                                         *)
(* A Python str is a sequence of one-character strings, a bytes object a   *)
(* sequence of numbers in 0..255.                                          *)
(***************************************************************************)
EXTENDS Integers, Sequences, FiniteSets, TLC

VARIABLES
    \* _markdown_to_html, one call of it
    markdown,        \* the argument as passed by the caller
    lines,           \* markdown.split("\n") of the escaped text
    line_no,         \* position of the `for line in lines` loop (next line to read)
    html_lines,
    in_code_block,
    in_list,
    html,            \* the value returned, None before the return
    tpc,             \* "idle" | "start" | "loop" | "done"
    \* the renderer objects and the caller's latest call on one of them
    renderer,        \* an instance the caller constructed itself, or None
    _renderer,       \* the module-level singleton of get_renderer, or None
    call             \* the latest should_render / render call and its progress

tvars == <<markdown, lines, line_no, html_lines, in_code_block, in_list, html, tpc>>
evars == <<renderer, _renderer, call>>
vars == <<markdown, lines, line_no, html_lines, in_code_block, in_list, html, tpc,
          renderer, _renderer, call>>

\* Python's None and an optional value: a set of at most one element.
None == {}
Some(v) == {v}
the(x) == CHOOSE v \in x : TRUE

(***************************************************************************)
(* Bounds of the model.                                                    *)
(***************************************************************************)
MaxLines == 3        \* lines of a generated document
MaxTokens == 4       \* tokens of a generated one-line document
MaxBytes == 3        \* bytes a backend returns

(***************************************************************************)
(* str helpers.                                                            *)
(***************************************************************************)
Whitespace == {" ", "\t", "\r"}

\* s[from:] with a 0-based Python offset
Drop(s, n) == IF n >= Len(s) THEN <<>> ELSE SubSeq(s, n + 1, Len(s))

\* s.startswith(p)
startswith(s, p) == Len(s) >= Len(p) /\ SubSeq(s, 1, Len(p)) = p

\* p occurs in s at (1-based) position i
OccursAt(s, p, i) == i >= 1 /\ i + Len(p) - 1 <= Len(s) /\ SubSeq(s, i, i + Len(p) - 1) = p

\* the least position >= from at which p occurs in s, 0 when there is none
Find(s, p, from) ==
    LET hits == {i \in from..Len(s) : OccursAt(s, p, i)}
    IN  IF hits = {} THEN 0 ELSE CHOOSE i \in hits : \A j \in hits : i <= j

\* s.rstrip()
rstrip(s) ==
    LET keep == {i \in 1..Len(s) : s[i] \notin Whitespace}
    IN  IF keep = {} THEN <<>>
        ELSE SubSeq(s, 1, CHOOSE i \in keep : \A j \in keep : j <= i)

\* the sequences over S of length at most n
SeqsUpTo(S, n) == UNION {[1..k -> S] : k \in 0..n}

RECURSIVE replace(_, _, _)
\* s.replace(c, r) for a one-character c
replace(s, c, r) ==
    IF s = <<>> THEN <<>>
    ELSE (IF Head(s) = c THEN r ELSE <<Head(s)>>) \o replace(Tail(s), c, r)

RECURSIVE split(_, _)
\* s.split(sep) for a one-character sep: always at least one piece
split(s, sep) ==
    LET at == Find(s, <<sep>>, 1)
    IN  IF at = 0 THEN <<s>>
        ELSE <<SubSeq(s, 1, at - 1)>> \o split(Drop(s, at), sep)

RECURSIVE join(_, _)
\* sep.join(parts)
join(parts, sep) ==
    IF parts = <<>> THEN <<>>
    ELSE IF Len(parts) = 1 THEN parts[1]
    ELSE parts[1] \o <<sep>> \o join(Tail(parts), sep)

(***************************************************************************)
(* The literals of _markdown_to_html.                                      *)
(***************************************************************************)
Amp == <<"&", "a", "m", "p", ";">>
Lt == <<"&", "l", "t", ";">>
Gt == <<"&", "g", "t", ";">>
\* The backtick character (U+0060), which a TLA+ string literal cannot hold.
Backtick == "backtick"
Fence == <<Backtick, Backtick, Backtick>>
PreCodeOpen == <<"<", "p", "r", "e", ">", "<", "c", "o", "d", "e", ">">>
PreCodeClose == <<"<", "/", "c", "o", "d", "e", ">", "<", "/", "p", "r", "e", ">">>
H1Open == <<"<", "h", "1", ">">>
H1Close == <<"<", "/", "h", "1", ">">>
H2Open == <<"<", "h", "2", ">">>
H2Close == <<"<", "/", "h", "2", ">">>
H3Open == <<"<", "h", "3", ">">>
H3Close == <<"<", "/", "h", "3", ">">>
UlOpen == <<"<", "u", "l", ">">>
UlClose == <<"<", "/", "u", "l", ">">>
LiOpen == <<"<", "l", "i", ">">>
LiClose == <<"<", "/", "l", "i", ">">>
Hr == <<"<", "h", "r", ">">>
Br == <<"<", "b", "r", ">">>
POpen == <<"<", "p", ">">>
PClose == <<"<", "/", "p", ">">>
StrongOpen == <<"<", "s", "t", "r", "o", "n", "g", ">">>
StrongClose == <<"<", "/", "s", "t", "r", "o", "n", "g", ">">>
CodeOpen == <<"<", "c", "o", "d", "e", ">">>
CodeClose == <<"<", "/", "c", "o", "d", "e", ">">>
AOpen == <<"<", "a", " ", "h", "r", "e", "f", "=", "\"">>
AMid == <<"\"", ">">>
AClose == <<"<", "/", "a", ">">>

(***************************************************************************)
(* The three re.sub passes of the paragraph branch.  `.+?` is one or more  *)
(* characters, as few as possible; a line holds no newline, so `.` matches *)
(* every character of it.  re.sub scans left to right, takes the leftmost  *)
(* match, and resumes after it: the replacement text is never rescanned.   *)
(***************************************************************************)
RECURSIVE sub_bold(_)
\* re.sub(r'\*\*(.+?)\*\*', r'<strong>\1</strong>', line)
sub_bold(s) ==
    IF s = <<>> THEN <<>>
    ELSE LET close == IF OccursAt(s, <<"*", "*">>, 1) THEN Find(s, <<"*", "*">>, 4) ELSE 0
         IN  IF close = 0 THEN <<Head(s)>> \o sub_bold(Tail(s))
             ELSE StrongOpen \o SubSeq(s, 3, close - 1) \o StrongClose
                  \o sub_bold(Drop(s, close + 1))

RECURSIVE sub_code(_)
\* re.sub(r'`(.+?)`', r'<code>\1</code>', line)
sub_code(s) ==
    IF s = <<>> THEN <<>>
    ELSE LET close == IF s[1] = Backtick THEN Find(s, <<Backtick>>, 3) ELSE 0
         IN  IF close = 0 THEN <<Head(s)>> \o sub_code(Tail(s))
             ELSE CodeOpen \o SubSeq(s, 2, close - 1) \o CodeClose
                  \o sub_code(Drop(s, close))

RECURSIVE sub_link(_)
\* re.sub(r'\[(.+?)\]\((.+?)\)', r'<a href="\2">\1</a>', line)
\* The least `](` with a `)` at least one character after it: a later `](`
\* leaves less room for the `)`, so when the least one fails all fail.
sub_link(s) ==
    IF s = <<>> THEN <<>>
    ELSE LET mid == IF s[1] = "[" THEN Find(s, <<"]", "(">>, 3) ELSE 0
             close == IF mid = 0 THEN 0 ELSE Find(s, <<")">>, mid + 3)
         IN  IF close = 0 THEN <<Head(s)>> \o sub_link(Tail(s))
             ELSE AOpen \o SubSeq(s, mid + 2, close - 1) \o AMid
                  \o SubSeq(s, 2, mid - 1) \o AClose
                  \o sub_link(Drop(s, close))

\* the link pass run before the inline code pass
inline_link_before_code(line) == sub_code(sub_link(sub_bold(line)))

\* The order of the three substitutions, each over the result of the one before.
inline(line) == sub_link(sub_code(sub_bold(line)))

(***************************************************************************)
(* _markdown_to_html.                                                      *)
(***************************************************************************)
\* the ampersand replaced last, after the two that produce ampersands
escape_amp_last(s) == replace(replace(replace(s, "<", Lt), ">", Gt), "&", Amp)

\* The escaping of the special characters: three replace calls in a row.
escape(s) == replace(replace(replace(s, "&", Amp), "<", Lt), ">", Gt)

\* The state the loop carries from line to line.
LoopInit == [html_lines |-> <<>>, in_code_block |-> FALSE, in_list |-> FALSE]

is_fence(line) == startswith(line, Fence)
is_h3(line) == startswith(line, <<"#", "#", "#", " ">>)
is_h2(line) == startswith(line, <<"#", "#", " ">>)
is_h1(line) == startswith(line, <<"#", " ">>)
is_item(line) == startswith(line, <<"-", " ">>) \/ startswith(line, <<"*", " ">>)
is_rule(line) == line = <<"-", "-", "-">> \/ line = <<"*", "*", "*">>

\* The html_lines with the open list, if any, closed.
close_list(st) ==
    IF st.in_list
    THEN [st EXCEPT !.in_list = FALSE, !.html_lines = Append(@, UlClose)]
    ELSE st

emit(st, text) == [st EXCEPT !.html_lines = Append(@, text)]

\* a fence line that opens a block whether or not one is open
fence_line_open_only(st) ==
    [st EXCEPT !.in_code_block = TRUE, !.html_lines = Append(@, PreCodeOpen)]

\* A line starting with three backticks.
fence_line(st) ==
    IF ~st.in_code_block
    THEN [st EXCEPT !.in_code_block = TRUE, !.html_lines = Append(@, PreCodeOpen)]
    ELSE [st EXCEPT !.in_code_block = FALSE, !.html_lines = Append(@, PreCodeClose)]

\* A list item line.
item_line(st, line) ==
    LET opened == IF ~st.in_list
                  THEN [st EXCEPT !.in_list = TRUE, !.html_lines = Append(@, UlOpen)]
                  ELSE st
    IN  emit(opened, LiOpen \o Drop(line, 2) \o LiClose)

\* A line outside a code block that is no fence.
markup_line(st, line) ==
    IF is_h3(line) THEN emit(st, H3Open \o Drop(line, 4) \o H3Close)
    ELSE IF is_h2(line) THEN emit(st, H2Open \o Drop(line, 3) \o H2Close)
    ELSE IF is_h1(line) THEN emit(st, H1Open \o Drop(line, 2) \o H1Close)
    ELSE IF is_item(line) THEN item_line(st, line)
    ELSE IF is_rule(line) THEN emit(st, Hr)
    ELSE IF line = <<>> THEN emit(close_list(st), Br)
    ELSE emit(close_list(st), POpen \o inline(line) \o PClose)

\* inline substitution applied to a line of a code block
code_line_inline(st, line) == emit(st, inline(line))

\* A line inside a code block that is no fence.
code_line(st, line) == emit(st, line)

\* One pass of the body of `for line in lines`.
process_line(st, raw) ==
    LET line == rstrip(raw)
    IN  IF is_fence(line) THEN fence_line(st)
        ELSE IF st.in_code_block THEN code_line(st, line)
        ELSE markup_line(st, line)

\* the end of the loop forgetting the list that is still open
end_of_input_unclosed(st) == st

\* After the loop: the list still open gets its closing tag (the flag is left as it is).
end_of_input(st) == IF st.in_list THEN emit(st, UlClose) ELSE st

\* The value returned.
finish(st) == join(end_of_input(st).html_lines, "\n")

RECURSIVE run_loop(_, _)
run_loop(st, ls) ==
    IF ls = <<>> THEN st ELSE run_loop(process_line(st, Head(ls)), Tail(ls))

\* The whole function, as render's two backends call it.
_markdown_to_html(md) == finish(run_loop(LoopInit, split(escape(md), "\n")))

(***************************************************************************)
(* MarkdownRenderer: construction and the should_render policy.            *)
(***************************************************************************)
\* The defaults of __init__'s parameters.
default_render_mode == "astrbot"
default_render_threshold == 200

\* The three modes the class documents, and one string it does not know.
Modes == {"astrbot", "local", "plain", "html"}
\* The modes that drive a backend.
RenderingModes == {"astrbot", "local"}

\* A threshold used as the small T > 0 of the inputs.
SmallThreshold == 3
Thresholds == {0, SmallThreshold, default_render_threshold}

\* __init__: by_default is a ghost field, TRUE while the instance is as a
\* construction with no options left it.
MarkdownRenderer(render_mode, render_threshold, by_default) ==
    [render_mode |-> render_mode, render_threshold |-> render_threshold,
     by_default |-> by_default]

\* a construction with no options that gives the "plain" mode
NewDefault_plain == MarkdownRenderer("plain", default_render_threshold, TRUE)

\* MarkdownRenderer()
NewDefault == MarkdownRenderer(default_render_mode, default_render_threshold, TRUE)

\* should_render comparing with >= instead of >
should_render_at_least(self, content) ==
    IF self.render_mode = "plain" THEN FALSE
    ELSE IF self.render_threshold = 0 THEN TRUE
    ELSE Len(content) >= self.render_threshold

should_render(self, content) ==
    IF self.render_mode = "plain" THEN FALSE
    ELSE IF self.render_threshold = 0 THEN TRUE
    ELSE Len(content) > self.render_threshold

(***************************************************************************)
(* render and its two backends.                                            *)
(***************************************************************************)
\* render consulting the should_render policy before it dispatches
render_branch_by_policy(self, markdown_content) ==
    IF ~should_render(self, markdown_content) THEN "return"
    ELSE IF self.render_mode = "astrbot" THEN "astrbot"
    ELSE IF self.render_mode = "local" THEN "local"
    ELSE "return"

\* The branch render takes: it reads render_mode and nothing else.
render_branch(self, markdown_content) ==
    IF self.render_mode = "astrbot" THEN "astrbot"
    ELSE IF self.render_mode = "local" THEN "local"
    ELSE "return"

Base64Alphabet ==
    <<"A", "B", "C", "D", "E", "F", "G", "H", "I", "J", "K", "L", "M", "N", "O", "P",
      "Q", "R", "S", "T", "U", "V", "W", "X", "Y", "Z", "a", "b", "c", "d", "e", "f",
      "g", "h", "i", "j", "k", "l", "m", "n", "o", "p", "q", "r", "s", "t", "u", "v",
      "w", "x", "y", "z", "0", "1", "2", "3", "4", "5", "6", "7", "8", "9", "+", "/">>

RECURSIVE b64encode(_)
\* base64.b64encode(b).decode(): three bytes give four characters, the last
\* group is padded with "=".
b64encode(b) ==
    IF b = <<>> THEN <<>>
    ELSE LET c1 == Base64Alphabet[(b[1] \div 4) + 1]
             hi2 == (b[1] % 4) * 16
         IN  IF Len(b) = 1 THEN <<c1, Base64Alphabet[hi2 + 1], "=", "=">>
             ELSE LET c2 == Base64Alphabet[hi2 + (b[2] \div 16) + 1]
                      hi3 == (b[2] % 16) * 4
                  IN  IF Len(b) = 2 THEN <<c1, c2, Base64Alphabet[hi3 + 1], "=">>
                      ELSE <<c1, c2, Base64Alphabet[hi3 + (b[3] \div 64) + 1],
                             Base64Alphabet[(b[3] % 64) + 1]>>
                           \o b64encode(Drop(b, 3))

\* The prefix of _render_local's return value.
Marker == <<"b", "a", "s", "e", "6", "4", ":", "/", "/">>

\* _render_local returning the bare base64 text
render_local_return_unmarked(pdf_bytes) == b64encode(pdf_bytes)

\* _render_local's return value for the bytes write_pdf gave.
render_local_return(pdf_bytes) == Marker \o b64encode(pdf_bytes)

\* the plain branch escaping what it hands back
render_return_escaped(markdown_content) == escape(markdown_content)

\* The plain branch of render: line 60.
render_return_input(markdown_content) == markdown_content

\* _render_astrbot's return value for the url render_custom_template gave.
render_astrbot_return(url) == url

\* _wrap_html: the document around the title and the body; the fixed text
\* of the template is three opaque pieces.
_wrap_html(body, title) == <<"<!DOCTYPE html>...<h1>">> \o title \o <<"</h1>">> \o body \o <<"</body></html>">>

\* The arguments of html_renderer.render_custom_template.
astrbot_args(template, html_content, title) ==
    [template |-> template, content |-> html_content, title |-> title]

\* render catching the exception and handing back the markdown
fall_back_to_input(c) == [c EXCEPT !.pc = "returned", !.failed = TRUE, !.returned = Some(c.content)]

\* An exception raised inside render: nothing catches it, the caller gets it.
raise(c) == [c EXCEPT !.pc = "raised", !.failed = TRUE]

(***************************************************************************)
(* The inputs of the engine.                                               *)
(***************************************************************************)
\* ch * n
repeat(ch, n) == [i \in 1..n |-> ch]

EngineDocuments ==
    { <<>>,
      <<"a", "<", "b">> }

\* The documents, and the lengths at and right above the two positive thresholds.
Contents ==
    EngineDocuments
    \cup {repeat("a", n) : n \in {SmallThreshold, SmallThreshold + 1,
                                   default_render_threshold,
                                   default_render_threshold + 1}}

Titles == { <<>>, <<"T">> }

ByteValues == {77, 255}
PdfBytes == SeqsUpTo(ByteValues, MaxBytes)

Urls == { <<"h", "t", "t", "p", ":", "/", "/", "u">>, <<"f", "i", "l", "e", ":", "/", "/", "p">> }

\* template_path.exists() or not
Templates == {"markdown_template.html", "_DEFAULT_TEMPLATE"}

(***************************************************************************)
(* The caller's latest call.                                               *)
(***************************************************************************)
NoCall ==
    [op |-> "none", self |-> None, content |-> <<>>, title |-> <<>>, pc |-> "idle",
     branch |-> "none", transcoded |-> 0, backend_calls |-> 0, astrbot_call |-> None,
     document |-> None, url |-> None, pdf_bytes |-> None, failed |-> FALSE,
     answer |-> None, returned |-> None]

Objects == {"renderer", "_renderer"}
object(o) == IF o = "renderer" THEN renderer ELSE _renderer

\* render is suspended in `await html_renderer.render_custom_template(...)`:
\* other code of the process may run.
Awaiting == call.pc = "awaiting"
\* render is inside the synchronous HTML(...).write_pdf(): nothing else runs.
Running == call.pc = "running"

TranscoderIdle ==
    /\ markdown = <<>>
    /\ lines = <<>>
    /\ line_no = 0
    /\ html_lines = <<>>
    /\ in_code_block = FALSE
    /\ in_list = FALSE
    /\ html = None
    /\ tpc = "idle"

Init ==
    /\ renderer = None
    /\ _renderer = None
    /\ call = NoCall
    /\ TranscoderIdle

\* MarkdownRenderer(render_mode=..., render_threshold=...)
Construct(render_mode, render_threshold) ==
    /\ ~Running
    /\ renderer' = Some(MarkdownRenderer(render_mode, render_threshold, FALSE))
    /\ UNCHANGED <<_renderer, call>>
    /\ UNCHANGED tvars

\* MarkdownRenderer()
ConstructDefault ==
    /\ ~Running
    /\ renderer' = Some(NewDefault)
    /\ UNCHANGED <<_renderer, call>>
    /\ UNCHANGED tvars

\* get_renderer(): the singleton is made on the first call and kept.
get_renderer ==
    /\ ~Running
    /\ _renderer' = IF _renderer = None THEN Some(NewDefault) ELSE _renderer
    /\ UNCHANGED <<renderer, call>>
    /\ UNCHANGED tvars

\* renderer.render_mode = render_mode, as test_renderer.py does to the
\* instance it constructed.
SetRenderMode(render_mode) ==
    /\ ~Running
    /\ renderer # None
    /\ renderer' = Some([the(renderer) EXCEPT !.render_mode = render_mode,
                                              !.by_default = FALSE])
    /\ UNCHANGED <<_renderer, call>>
    /\ UNCHANGED tvars

\* A call can be made on an object that exists, when the latest one is over.
CanCall(o) == object(o) # None /\ ~Awaiting /\ ~Running

\* obj.should_render(content)
ShouldRender(o, content) ==
    /\ CanCall(o)
    /\ call' = [NoCall EXCEPT !.op = "should_render", !.self = object(o),
                              !.content = content, !.pc = "returned",
                              !.answer = Some(should_render(the(object(o)), content))]
    /\ UNCHANGED <<renderer, _renderer>>
    /\ UNCHANGED tvars

\* The call record of render(markdown_content, title) as it is entered.
Entered(o, markdown_content, title) ==
    [NoCall EXCEPT !.op = "render", !.self = object(o), !.content = markdown_content,
                   !.title = title,
                   !.branch = render_branch(the(object(o)), markdown_content)]

\* render in a mode that is neither "astrbot" nor "local": line 60.
RenderReturnsInput(o, markdown_content, title) ==
    /\ CanCall(o)
    /\ LET c == Entered(o, markdown_content, title)
       IN  /\ c.branch = "return"
           /\ call' = [c EXCEPT !.pc = "returned",
                                !.returned = Some(render_return_input(markdown_content))]
    /\ UNCHANGED <<renderer, _renderer>>
    /\ UNCHANGED tvars

\* _render_astrbot up to its await: the template is read, the markdown is
\* transcoded, render_custom_template is called.
RenderAstrbotCalls(o, markdown_content, title, template) ==
    /\ CanCall(o)
    /\ LET c == Entered(o, markdown_content, title)
       IN  /\ c.branch = "astrbot"
           /\ call' = [c EXCEPT !.pc = "awaiting", !.transcoded = 1,
                                !.backend_calls = 1,
                                !.astrbot_call = Some(astrbot_args(template,
                                    _markdown_to_html(markdown_content), title))]
    /\ UNCHANGED <<renderer, _renderer>>
    /\ UNCHANGED tvars

\* `from astrbot.api import html_renderer, logger` fails: no AstrBot service.
RenderAstrbotImportFails(o, markdown_content, title) ==
    /\ CanCall(o)
    /\ LET c == Entered(o, markdown_content, title)
       IN  /\ c.branch = "astrbot"
           /\ call' = raise(c)
    /\ UNCHANGED <<renderer, _renderer>>
    /\ UNCHANGED tvars

\* render_custom_template gives its url: lines 79-85, then line 56.
AstrbotReturns(url) ==
    /\ Awaiting
    /\ call' = [call EXCEPT !.pc = "returned", !.url = Some(url),
                            !.returned = Some(render_astrbot_return(url))]
    /\ UNCHANGED <<renderer, _renderer>>
    /\ UNCHANGED tvars

\* render_custom_template raises.
AstrbotRaises ==
    /\ Awaiting
    /\ call' = raise(call)
    /\ UNCHANGED <<renderer, _renderer>>
    /\ UNCHANGED tvars

\* _render_local up to write_pdf: transcode, wrap, call write_pdf.
RenderLocalCalls(o, markdown_content, title) ==
    /\ CanCall(o)
    /\ LET c == Entered(o, markdown_content, title)
       IN  /\ c.branch = "local"
           /\ call' = [c EXCEPT !.pc = "running", !.transcoded = 1,
                                !.backend_calls = 1,
                                !.document = Some(_wrap_html(
                                    _markdown_to_html(markdown_content), title))]
    /\ UNCHANGED <<renderer, _renderer>>
    /\ UNCHANGED tvars

\* `from weasyprint import HTML` fails: the library is not installed.
RenderLocalImportFails(o, markdown_content, title) ==
    /\ CanCall(o)
    /\ LET c == Entered(o, markdown_content, title)
       IN  /\ c.branch = "local"
           /\ call' = raise(c)
    /\ UNCHANGED <<renderer, _renderer>>
    /\ UNCHANGED tvars

\* write_pdf gives its bytes: line 102, then line 58.
WritePdfReturns(pdf_bytes) ==
    /\ Running
    /\ call' = [call EXCEPT !.pc = "returned", !.pdf_bytes = Some(pdf_bytes),
                            !.returned = Some(render_local_return(pdf_bytes))]
    /\ UNCHANGED <<renderer, _renderer>>
    /\ UNCHANGED tvars

\* write_pdf raises.
WritePdfRaises ==
    /\ Running
    /\ call' = raise(call)
    /\ UNCHANGED <<renderer, _renderer>>
    /\ UNCHANGED tvars

Next ==
    \/ \E m \in Modes, t \in Thresholds : Construct(m, t)
    \/ ConstructDefault
    \/ get_renderer
    \/ \E m \in Modes : SetRenderMode(m)
    \/ \E o \in Objects, c \in Contents : ShouldRender(o, c)
    \/ \E o \in Objects, md \in EngineDocuments, ti \in Titles :
          \/ RenderReturnsInput(o, md, ti)
          \/ \E tp \in Templates : RenderAstrbotCalls(o, md, ti, tp)
          \/ RenderAstrbotImportFails(o, md, ti)
          \/ RenderLocalCalls(o, md, ti)
          \/ RenderLocalImportFails(o, md, ti)
    \/ \E u \in Urls : AstrbotReturns(u)
    \/ AstrbotRaises
    \/ \E b \in PdfBytes : WritePdfReturns(b)
    \/ WritePdfRaises

Spec == Init /\ [][Next]_vars

(***************************************************************************)
(* The inputs of the transcoder: documents of up to MaxLines lines drawn   *)
(* from a pool with one line of every kind the loop tells apart, one-line  *)
(* documents of up to MaxTokens inline tokens, and some documents of the   *)
(* tests and the documentation.                                            *)
(***************************************************************************)
LinePool ==
    { Fence,
      <<"#", " ", "T">>,
      <<"-", " ", "a">>,
      <<"*", " ", "b">>,
      <<"-", "-", "-">>,
      <<>>,
      <<"*", "*", "x", "*", "*">>,
      <<"x", " ">>,
      <<"<", "&", ">">> }

Tokens ==
    { <<"*", "*">>, <<Backtick>>, <<"x">>, <<"[">>, <<"]", "(">>, <<")">>, <<"<">> }

RECURSIVE concat(_)
concat(parts) == IF parts = <<>> THEN <<>> ELSE Head(parts) \o concat(Tail(parts))

ExampleDocuments ==
    { \* "# Title\n\n- a\n- b\n\ntext **bold** end"
      <<"#", " ", "T", "\n", "\n", "-", " ", "a", "\n", "-", " ", "b", "\n", "\n",
        "t", " ", "*", "*", "b", "*", "*", " ", "e">>,
      \* "<script>"
      <<"<", "s", "c", "r", "i", "p", "t", ">">>,
      \* "&lt;"
      <<"&", "l", "t", ";">>,
      \* bold markers inside backticks
      <<Backtick, "*", "*", "x", "*", "*", Backtick>>,
      \* a link with backticks as text and url
      <<"[", Backtick, "]", "(", Backtick, ")">>,
      \* "**a** **b**"
      <<"*", "*", "a", "*", "*", " ", "*", "*", "b", "*", "*">>,
      \* "[t](u)"
      <<"[", "t", "]", "(", "u", ")">>,
      \* "## T", "### T", "***", "#T"
      <<"#", "#", " ", "T">>,
      <<"#", "#", "#", " ", "T">>,
      <<"*", "*", "*">>,
      <<"#", "T">>,
      \* a fence with an info string, a code line with trailing blanks, no closing fence
      Fence \o <<"p", "y", "\n", " ", "x", " ", "\t">> }

Documents ==
    {join(ls, "\n") : ls \in SeqsUpTo(LinePool, MaxLines)}
    \cup {concat(ts) : ts \in SeqsUpTo(Tokens, MaxTokens)}
    \cup ExampleDocuments

(***************************************************************************)
(* One call of _markdown_to_html, a line at a time.                        *)
(***************************************************************************)
LoopState == [html_lines |-> html_lines, in_code_block |-> in_code_block, in_list |-> in_list]

EngineIdle ==
    /\ renderer = None
    /\ _renderer = None
    /\ call = NoCall

TranscoderInit ==
    /\ markdown \in Documents
    /\ lines = <<>>
    /\ line_no = 0
    /\ html_lines = <<>>
    /\ in_code_block = FALSE
    /\ in_list = FALSE
    /\ html = None
    /\ tpc = "start"
    /\ EngineIdle

\* Lines 109-117: escape, split, the empty output and the two flags.
Begin ==
    /\ tpc = "start"
    /\ lines' = split(escape(markdown), "\n")
    /\ line_no' = 1
    /\ html_lines' = LoopInit.html_lines
    /\ in_code_block' = LoopInit.in_code_block
    /\ in_list' = LoopInit.in_list
    /\ tpc' = "loop"
    /\ UNCHANGED <<markdown, html, renderer, _renderer, call>>

\* Lines 119-169: the loop body on the next line.
NextLine ==
    /\ tpc = "loop"
    /\ line_no <= Len(lines)
    /\ LET st == process_line(LoopState, lines[line_no])
       IN  /\ html_lines' = st.html_lines
           /\ in_code_block' = st.in_code_block
           /\ in_list' = st.in_list
    /\ line_no' = line_no + 1
    /\ UNCHANGED <<markdown, lines, html, tpc, renderer, _renderer, call>>

\* Lines 171-174: the loop has ended.
Return ==
    /\ tpc = "loop"
    /\ line_no > Len(lines)
    /\ html_lines' = end_of_input(LoopState).html_lines
    /\ html' = Some(finish(LoopState))
    /\ tpc' = "done"
    /\ UNCHANGED <<markdown, lines, line_no, in_code_block, in_list, renderer, _renderer, call>>

TranscoderNext == Begin \/ NextLine \/ Return

TranscoderSpec == TranscoderInit /\ [][TranscoderNext]_vars

(***************************************************************************)
(* The claims about the render engine, checked under Spec.                 *)
(***************************************************************************)
RenderCall == call.op = "render"
PolicyCall == call.op = "should_render"

\* C1: should_render answers FALSE when the mode is "plain"; TRUE when the
\* mode is another one and the threshold is 0; and when the mode is another
\* one and the threshold is T > 0, TRUE exactly when len(content) > T.
C1_ShouldRenderPolicy ==
    PolicyCall =>
        LET self == the(call.self)
            answer == the(call.answer)
        IN  /\ self.render_mode = "plain" => answer = FALSE
            /\ (self.render_mode # "plain" /\ self.render_threshold = 0) => answer = TRUE
            /\ (self.render_mode # "plain" /\ self.render_threshold > 0)
                   => (answer <=> Len(call.content) > self.render_threshold)

\* C1 witness: a rendering mode, T > 0, content of length exactly T, answer FALSE.
C1_Witness ==
    /\ PolicyCall
    /\ the(call.self).render_mode \in RenderingModes
    /\ the(call.self).render_threshold > 0
    /\ Len(call.content) = the(call.self).render_threshold
    /\ the(call.answer) = FALSE

\* C2: in mode "plain" render returns its markdown argument unchanged, for
\* every markdown and title, without transcoding and without a backend call.
C2_PlainReturnsInput ==
    (RenderCall /\ the(call.self).render_mode = "plain") =>
        /\ call.pc = "returned"
        /\ call.returned = Some(call.content)
        /\ call.transcoded = 0
        /\ call.backend_calls = 0

\* C2 witness: a plain render of text that escaping would change.
C2_Witness ==
    /\ RenderCall
    /\ the(call.self).render_mode = "plain"
    /\ call.content = <<"a", "<", "b">>
    /\ call.returned = Some(<<"a", "<", "b">>)

\* C3 as stated: in every rendering mode a successful render returns the
\* marker prefix followed by the base64 text of the backend's bytes.
C3_MarkerInEveryRenderingMode ==
    (RenderCall /\ call.pc = "returned" /\ the(call.self).render_mode \in RenderingModes) =>
        /\ startswith(the(call.returned), Marker)
        /\ call.pdf_bytes # None
        /\ Drop(the(call.returned), Len(Marker)) = b64encode(the(call.pdf_bytes))

\* C3 as amended: in mode "local" a successful render returns "base64://"
\* followed by the base64 text of the bytes write_pdf gave; in mode
\* "astrbot" it returns the string render_custom_template gave, as it is.
C3_MarkerInLocalModeOnly ==
    (RenderCall /\ call.pc = "returned") =>
        /\ the(call.self).render_mode = "local" =>
               /\ call.pdf_bytes # None
               /\ startswith(the(call.returned), Marker)
               /\ Drop(the(call.returned), Len(Marker)) = b64encode(the(call.pdf_bytes))
        /\ the(call.self).render_mode = "astrbot" =>
               /\ call.url # None
               /\ call.returned = call.url

\* C3 witness: a local render of three bytes, no padding: "base64://Tf//".
C3_Witness ==
    /\ RenderCall
    /\ call.pc = "returned"
    /\ the(call.self).render_mode = "local"
    /\ call.pdf_bytes = Some(<<77, 255, 255>>)
    /\ call.returned = Some(Marker \o <<"T", "f", "/", "/">>)

\* C4: when the import of a backend or the backend's call fails, render
\* ends by raising: no value is returned; and no render calls a backend
\* more than once.
C4_FailurePropagates ==
    RenderCall =>
        /\ call.backend_calls <= 1
        /\ call.failed => (call.pc = "raised" /\ call.returned = None)

\* C4 witness: a backend that was called once and failed.
C4_Witness ==
    /\ RenderCall
    /\ call.failed
    /\ call.backend_calls = 1
    /\ call.pc = "raised"

\* C8 as stated: an instance constructed with no options, the one of
\* get_renderer included, has mode "plain" and threshold 200, so that
\* should_render answers FALSE and render returns its input.
C8_DefaultIsPlain ==
    /\ \A o \in Objects :
           (object(o) # None /\ the(object(o)).by_default) =>
               /\ the(object(o)).render_mode = "plain"
               /\ the(object(o)).render_threshold = 200
    /\ (PolicyCall /\ the(call.self).by_default) => the(call.answer) = FALSE
    /\ (RenderCall /\ the(call.self).by_default) => call.branch = "return"

\* C8 as amended: such an instance has mode "astrbot" and threshold 200:
\* should_render answers TRUE exactly for content longer than 200, and
\* render takes the astrbot branch instead of returning its input; the
\* singleton is such an instance.
C8_DefaultIsAstrbot ==
    /\ \A o \in Objects :
           (object(o) # None /\ the(object(o)).by_default) =>
               /\ the(object(o)).render_mode = "astrbot"
               /\ the(object(o)).render_threshold = 200
    /\ _renderer # None => the(_renderer).by_default
    /\ (PolicyCall /\ the(call.self).by_default) =>
           (the(call.answer) <=> Len(call.content) > 200)
    /\ (RenderCall /\ the(call.self).by_default) => call.branch = "astrbot"

\* C8 witness: the singleton exists and an instance made with no options
\* answered TRUE for 201 characters.
C8_Witness ==
    /\ _renderer # None
    /\ PolicyCall
    /\ the(call.self).by_default
    /\ Len(call.content) = 201
    /\ the(call.answer) = TRUE

\* C9: the branch render takes is the one it would take with any other
\* threshold, and in a rendering mode the backend is called once the
\* import succeeded, whatever should_render says about the markdown.
C9_RenderIgnoresThreshold ==
    RenderCall =>
        LET self == the(call.self)
        IN  /\ \A t \in Thresholds :
                   render_branch([self EXCEPT !.render_threshold = t], call.content)
                       = call.branch
            /\ (self.render_mode \in RenderingModes /\ ~call.failed) =>
                   call.backend_calls = 1

\* C9 witness: a render that went through the backend although should_render
\* is FALSE for its markdown.
C9_Witness ==
    /\ RenderCall
    /\ call.pc = "returned"
    /\ the(call.self).render_mode \in RenderingModes
    /\ ~should_render(the(call.self), call.content)
    /\ call.backend_calls = 1

(***************************************************************************)
(* The claims about the transcoder, checked under TranscoderSpec.          *)
(***************************************************************************)
\* The loop is about to read a line; ThisLine is that line as the loop
\* body sees it after its rstrip.
AtLine == tpc = "loop" /\ line_no <= Len(lines)
ThisLine == rstrip(lines[line_no])

\* The last element of a non-empty sequence.
Last(s) == s[Len(s)]

\* A line the loop treats as a paragraph when it is outside a code block.
is_paragraph(line) ==
    /\ ~is_fence(line)
    /\ ~is_h3(line) /\ ~is_h2(line) /\ ~is_h1(line)
    /\ ~is_item(line)
    /\ ~is_rule(line)
    /\ line # <<>>

\* C5 as stated: with a list open, the first line that is no list item,
\* whatever its kind, closes the list, and the closing tag comes before
\* anything else that line emits.
C5_AnyNonItemLineClosesList ==
    [][(AtLine /\ in_list /\ ~is_item(ThisLine)) =>
           /\ in_list' = FALSE
           /\ Len(html_lines') > Len(html_lines)
           /\ html_lines'[Len(html_lines) + 1] = UlClose]_vars

\* C6 as stated: inside a code block a line that is no fence is emitted as
\* it is (the escaped text), one output line, and nothing else changes.
C6_CodeLineVerbatim ==
    [][(AtLine /\ in_code_block /\ ~is_fence(lines[line_no])) =>
           /\ html_lines' = Append(html_lines, lines[line_no])
           /\ in_code_block' = in_code_block
           /\ in_list' = in_list]_vars

\* C6 as amended: inside a code block a line that is no fence is emitted as
\* one output line holding its escaped text with the trailing whitespace
\* stripped, with no heading, list, rule, blank-line or inline processing.
C6_CodeLineRstripped ==
    [][(AtLine /\ in_code_block /\ ~is_fence(lines[line_no])) =>
           /\ html_lines' = Append(html_lines, rstrip(lines[line_no]))
           /\ in_code_block' = in_code_block
           /\ in_list' = in_list]_vars

\* C6 witness: a balanced block around "**x**", which stays literal.
C6_Witness ==
    /\ tpc = "done"
    /\ markdown = join(<<Fence, <<"*", "*", "x", "*", "*">>, Fence>>, "\n")
    /\ html = Some(join(<<PreCodeOpen, <<"*", "*", "x", "*", "*">>, PreCodeClose>>, "\n"))

\* The character by character substitution of one pass over the input.
entity(ch) ==
    IF ch = "&" THEN Amp ELSE IF ch = "<" THEN Lt ELSE IF ch = ">" THEN Gt ELSE <<ch>>
one_pass_escape(s) == concat([i \in 1..Len(s) |-> entity(s[i])])

\* The texts the transcoder emits that hold an angle bracket.
EmittedLiterals ==
    { PreCodeOpen, PreCodeClose, H1Open, H1Close, H2Open, H2Close, H3Open, H3Close,
      UlOpen, UlClose, LiOpen, LiClose, Hr, Br, POpen, PClose,
      StrongOpen, StrongClose, CodeOpen, CodeClose, AOpen, AMid, AClose }

RECURSIVE only_own_tags(_)
\* Every "<" and ">" of s lies inside an occurrence of an emitted literal.
only_own_tags(s) ==
    IF s = <<>> THEN TRUE
    ELSE LET ms == {t \in EmittedLiterals : startswith(s, t)}
         IN  IF ms # {}
             THEN only_own_tags(Drop(s, Len(CHOOSE t \in ms : \A u \in ms : Len(u) <= Len(t))))
             ELSE s[1] \notin {"<", ">"} /\ only_own_tags(Tail(s))

\* C7: the lines the loop reads are those of the input with each "&", "<"
\* and ">" replaced once, by "&amp;", "&lt;" and "&gt;"; and every "<" and
\* ">" of the output, inside and outside code blocks, is part of a tag the
\* transcoder emitted.
C7_EscapedOnceThenOwnTagsOnly ==
    /\ tpc \in {"loop", "done"} => join(lines, "\n") = one_pass_escape(markdown)
    /\ \A i \in 1..Len(html_lines) : only_own_tags(html_lines[i])
    /\ tpc = "done" => only_own_tags(the(html))

\* C7 witness: "<script>" has become "<p>&lt;script&gt;</p>".
C7_Witness ==
    /\ tpc = "done"
    /\ markdown = <<"<", "s", "c", "r", "i", "p", "t", ">">>
    /\ html = Some(POpen \o Lt \o <<"s", "c", "r", "i", "p", "t">> \o Gt \o PClose)

\* C10: a paragraph line outside a code block becomes one <p> element
\* holding the line after the bold pass, then the inline code pass over
\* that, then the link pass over that (after the closing tag of a list that
\* was open); each pass is non-greedy and does not rescan what it emitted.
C10_InlineOrder ==
    /\ [][(AtLine /\ ~in_code_block /\ is_paragraph(ThisLine)) =>
              /\ Len(html_lines') = Len(html_lines) + (IF in_list THEN 2 ELSE 1)
              /\ Last(html_lines') =
                     POpen \o sub_link(sub_code(sub_bold(ThisLine))) \o PClose]_vars
    /\ [](tpc = "done" =>
              /\ markdown = <<"*", "*", "a", "*", "*", " ", "*", "*", "b", "*", "*">> =>
                     html = Some(POpen \o StrongOpen \o <<"a">> \o StrongClose \o <<" ">>
                                 \o StrongOpen \o <<"b">> \o StrongClose \o PClose)
              /\ markdown = <<"[", Backtick, "]", "(", Backtick, ")">> =>
                     html = Some(POpen \o AOpen \o CodeClose \o AMid \o CodeOpen
                                 \o AClose \o PClose))

\* C10 witness: bold markers inside backticks: <p><code><strong>x</strong></code></p>.
C10_Witness ==
    /\ tpc = "done"
    /\ markdown = <<Backtick, "*", "*", "x", "*", "*", Backtick>>
    /\ html = Some(POpen \o CodeOpen \o StrongOpen \o <<"x">> \o StrongClose
                   \o CodeClose \o PClose)

\* The code-block tags among output lines, in their order.
is_code_block_tag(text) == text \in {PreCodeOpen, PreCodeClose}
code_block_tags(out) == SelectSeq(out, is_code_block_tag)

\* How many elements of a sequence equal x.
count(out, x) == Cardinality({i \in 1..Len(out) : out[i] = x})

\* The lines of the input, as passed, that begin with three backticks.
fence_lines(md) ==
    LET ls == split(md, "\n") IN Cardinality({i \in 1..Len(ls) : startswith(ls[i], Fence)})

\* The tags alternate, the first one being an opening tag.
alternating(tags) ==
    \A i \in 1..Len(tags) : tags[i] = IF i % 2 = 1 THEN PreCodeOpen ELSE PreCodeClose

\* C11: a line beginning with three backticks flips in_code_block and emits
\* one output line, the opening tag when entering and the closing tag when
\* leaving, and changes nothing else; the code-block tags of the output
\* alternate starting with an opening tag; and in the returned text the
\* opening tags outnumber the closing ones by 1 when the input has an odd
\* number of fence lines (no closing tag is added) and by 0 otherwise.
C11_FenceTagsAlternate ==
    /\ [][(AtLine /\ is_fence(lines[line_no])) =>
              /\ in_code_block' = ~in_code_block
              /\ html_lines' = Append(html_lines,
                                      IF in_code_block THEN PreCodeClose ELSE PreCodeOpen)
              /\ in_list' = in_list]_vars
    /\ [](tpc \in {"loop", "done"} =>
              /\ alternating(code_block_tags(html_lines))
              /\ count(html_lines, PreCodeOpen) - count(html_lines, PreCodeClose)
                     = IF in_code_block THEN 1 ELSE 0)
    /\ [](tpc = "done" =>
              LET out == split(the(html), "\n")
              IN  /\ alternating(code_block_tags(out))
                  /\ count(out, PreCodeOpen) + count(out, PreCodeClose) = fence_lines(markdown)
                  /\ count(out, PreCodeOpen) - count(out, PreCodeClose)
                         = fence_lines(markdown) % 2)

\* C11 witness: three fence lines: open, close, open, and the last block
\* is left open in the returned text.
C11_Witness ==
    /\ tpc = "done"
    /\ fence_lines(markdown) = 3
    /\ code_block_tags(split(the(html), "\n")) = <<PreCodeOpen, PreCodeClose, PreCodeOpen>>
    /\ Last(split(the(html), "\n")) = PreCodeOpen

\* An output line that is a list-item element.
is_list_item_element(text) ==
    /\ startswith(text, LiOpen)
    /\ Len(text) >= Len(LiOpen) + Len(LiClose)
    /\ Drop(text, Len(text) - Len(LiClose)) = LiClose

\* C12: after every prefix of the input lines the <ul> tags emitted
\* outnumber the </ul> tags by 1 when in_list is set and by 0 when it is
\* not (so lists are never nested); a step that emits a list-item element
\* ends with in_list set; and in the returned text the two counts are
\* equal, the list still open at the end of the input having been closed.
C12_ListTagsBalanced ==
    /\ [](tpc = "loop" =>
              count(html_lines, UlOpen) - count(html_lines, UlClose)
                  = IF in_list THEN 1 ELSE 0)
    /\ [][(AtLine /\ \E i \in (Len(html_lines) + 1)..Len(html_lines') :
                         is_list_item_element(html_lines'[i])) =>
              (in_list' /\ ~in_code_block)]_vars
    /\ [](tpc = "done" =>
              LET out == split(the(html), "\n")
              IN  /\ out = html_lines
                  /\ count(out, UlOpen) = count(out, UlClose)
                  /\ in_list => Last(out) = UlClose)

\* C12 witness: two lists, the second one still open when the input ends.
C12_Witness ==
    /\ tpc = "done"
    /\ in_list
    /\ count(html_lines, UlOpen) = 2
    /\ count(split(the(html), "\n"), UlClose) = 2

=============================================================================
